---- MODULE Spec2Model ----
(***************************************************************************)
(* Model of the "debug" Terraform provider (internal/provider).           *)
(*                                                                         *)
(* The host (Terraform through the plugin framework) calls one handler at  *)
(* a time.  A handler runs from the request to its first blocking point in *)
(* one step; blocking points (a select on a timer and on the request       *)
(* context, a WaitGroup wait) are separate steps.  Time is a discrete      *)
(* clock in seconds; a request context can be cancelled at any moment      *)
(* while its handler runs.                                                 *)
(***************************************************************************)
EXTENDS Integers, FiniteSets, Sequences, TLC

VARIABLES
    now,        \* wall clock, seconds
    op,         \* handler called last ("none" before the first call)
    pc,         \* its position: "idle", a blocking point, or "done"
    ctxDone,    \* ctx.Done() of the running request is closed
    deadline,   \* instant at which the channel of time.After delivers; -1: no timer
    sel,        \* branch the last select took: "none", "timer", "ctx"
    req,        \* the request: config / plan / prior state
    diags,      \* resp.Diagnostics: summaries of the errors added
    respState,  \* resp.State as the handler leaves it
    startAt,    \* instant the handler was entered
    retAt,      \* instant the handler returned
    numCores,   \* CPUHogDataSource.Read: local numCores
    i,          \* CPUHogDataSource.Read: loop index of the spawn loop
    quit,       \* CPUHogDataSource.Read: quit channel is closed
    wg,         \* CPUHogDataSource.Read: WaitGroup counter
    worker,     \* CPUHogDataSource.Read: state of each worker goroutine
    gomaxprocs, \* runtime.GOMAXPROCS setting of the process
    sleepState, \* debug_sleep resource: state kept by the host
    failState,  \* debug_failure resource: state kept by the host
    lastGood,   \* debug_failure: plan of the last Create/Update that succeeded
    refused,    \* debug_failure: a Delete of the present resource has failed
    served,     \* data source constructors the host got from DataSources()
    cmdState,   \* debug_command resource: state kept by the host
    httpState,  \* debug_http_get resource: state kept by the host
    calls,      \* what the running handler did outside the process, in order
    memoryHog,  \* OOMKillDataSource.Read: sizes of the blocks in memoryHog
    totalAllocatedBytes, \* OOMKillDataSource.Read: local totalAllocatedBytes
    fs,         \* the files of the working directory: path -> content
    prevRead    \* debug_plan_artifact: request and result of the Read before

comVars  == <<now, op, pc, ctxDone, deadline, sel, req, diags, respState, startAt, retAt>>
cpuVars  == <<numCores, i, quit, wg, worker, gomaxprocs>>
sleepVars == <<sleepState>>
failVars == <<failState, lastGood, refused>>
provVars == <<served>>
extVars == <<cmdState, httpState, calls, memoryHog, totalAllocatedBytes, fs, prevRead>>
vars == <<comVars, cpuVars, sleepVars, failVars, provVars, extVars>>

----------------------------------------------------------------------------
(* Bounds of the model *)

\* the clock ticks second by second up to MaxTime
MaxTime == 3
\* runtime.NumCPU() of the machine the provider runs on
NumCPU == 4

----------------------------------------------------------------------------
(* Values of the plugin framework *)

\* a null types.String
NullStr == "<null>"
\* a null types.Int32 (any value outside the inputs)
NullInt == -99
\* no state / no request
NoState == [exists |-> FALSE]

\* types.String.ValueString(): "" for null
ValueString(v) == IF v = NullStr THEN "" ELSE v
\* types.Int32.ValueInt32(): 0 for null
ValueInt32(v) == IF v = NullInt THEN 0 ELSE v

\* time.ParseDuration on the strings of the model: [ok, d] with d in seconds.
\* The empty string and a string without a unit are errors.
ParseDuration(s) ==
    CASE s = "0s"  -> [ok |-> TRUE, d |-> 0]
      [] s = "1s"  -> [ok |-> TRUE, d |-> 1]
      [] s = "2s"  -> [ok |-> TRUE, d |-> 2]
      [] s = "30s" -> [ok |-> TRUE, d |-> 30]
      [] OTHER     -> [ok |-> FALSE, d |-> 0]

Running == pc \notin {"idle", "done"}

\* the paths of the model and a working directory without files
Paths == {"artifact", "out/artifact"}
NoFile == [exists |-> FALSE]
NoFiles == [p \in Paths |-> NoFile]

----------------------------------------------------------------------------
(* Environment: the clock and the request context *)

\* Time passes: one second, or up to the instant the pending timer is due.
Tick ==
    /\ now < MaxTime
    /\ \E t \in {now + 1} \cup (IF deadline > now THEN {deadline} ELSE {}) :
         now' = t
    /\ UNCHANGED <<op, pc, ctxDone, deadline, sel, req, diags, respState, startAt, retAt>>
    /\ UNCHANGED <<cpuVars, sleepVars, failVars, provVars, extVars>>

\* The host cancels the context of the running request.
Cancel ==
    /\ Running
    /\ ~ctxDone
    /\ ctxDone' = TRUE
    /\ UNCHANGED <<now, op, pc, deadline, sel, req, diags, respState, startAt, retAt>>
    /\ UNCHANGED <<cpuVars, sleepVars, failVars, provVars, extVars>>

\* The cases of "select { <-ctx.Done() ; <-time.After(d) }" that can proceed.
ReadyBranches ==
    (IF ctxDone THEN {"ctx"} ELSE {}) \cup (IF now >= deadline THEN {"timer"} ELSE {})

----------------------------------------------------------------------------
(* data source debug_cpu_hog: cpu_hog_data_source.go *)

Cores == 0 .. (NumCPU + 1)
NoWorkers == [w \in Cores |-> "none"]

\* the configurations the host sends
CPUHogConfigs ==
    [num_cores : {NullInt, -1, 0} \cup (1 .. NumCPU + 1),
     duration  : {NullStr, "bad", "1s", "30s"}]

\* Read, lines 66-80: numCores after the zero check
ResolveNumCoresNoDefault(n) == n
ResolveNumCores(n) == IF n = 0 THEN NumCPU ELSE n

\* Read, lines 66-99: the error the checks before the fan-out end with, "" if none
CPUHogCheck(cfg) ==
    LET n == ValueInt32(cfg.num_cores) IN
    IF n < 0 THEN "Invalid Number of Cores"
    ELSE IF ResolveNumCores(n) > NumCPU THEN "Invalid Number of Cores"
    ELSE IF ~ParseDuration(ValueString(cfg.duration)).ok THEN "Invalid Duration"
    ELSE ""

\* Read up to the fan-out (lines 58-105)
CPUHogRead(cfg) ==
    /\ ~Running
    /\ op' = "cpu_hog.Read"
    /\ req' = [exists |-> TRUE, config |-> cfg]
    /\ ctxDone' = FALSE
    /\ sel' = "none"
    /\ deadline' = -1
    /\ respState' = NoState
    /\ startAt' = now
    /\ worker' = NoWorkers
    /\ i' = 0
    /\ quit' = FALSE
    /\ wg' = 0
    /\ IF CPUHogCheck(cfg) # ""
       THEN /\ diags' = {CPUHogCheck(cfg)}
            /\ pc' = "done"
            /\ retAt' = now
            /\ numCores' = 0
            /\ UNCHANGED gomaxprocs
       ELSE /\ diags' = {}
            /\ pc' = "spawn"
            /\ retAt' = -1
            /\ numCores' = ResolveNumCores(ValueInt32(cfg.num_cores))
            /\ gomaxprocs' = ResolveNumCores(ValueInt32(cfg.num_cores))
    /\ UNCHANGED <<now, sleepVars, failVars, provVars, extVars>>

\* one iteration of the loop of lines 106-113: wg.Add(1); go func(core)
CPUHogSpawn ==
    /\ op = "cpu_hog.Read" /\ pc = "spawn"
    /\ i < numCores
    /\ wg' = wg + 1
    /\ worker' = [worker EXCEPT ![i] = "started"]
    /\ i' = i + 1
    /\ UNCHANGED <<comVars, numCores, quit, gomaxprocs, sleepVars, failVars, provVars, extVars>>

\* the loop is over: the select of line 115 is entered and time.After evaluated
CPUHogEnterSelect ==
    /\ op = "cpu_hog.Read" /\ pc = "spawn"
    /\ i = numCores
    /\ pc' = "select"
    /\ deadline' = now + ParseDuration(ValueString(req.config.duration)).d
    /\ UNCHANGED <<now, op, ctxDone, sel, req, diags, respState, startAt, retAt>>
    /\ UNCHANGED <<cpuVars, sleepVars, failVars, provVars, extVars>>

\* the select of lines 115-122: either case closes quit
CPUHogSelect ==
    /\ op = "cpu_hog.Read" /\ pc = "select"
    /\ \E b \in ReadyBranches : sel' = b
    /\ quit' = TRUE
    /\ pc' = "wait"
    /\ UNCHANGED <<now, op, ctxDone, deadline, req, diags, respState, startAt, retAt>>
    /\ UNCHANGED <<numCores, i, wg, worker, gomaxprocs, sleepVars, failVars, provVars, extVars>>

\* wg.Wait() of line 124 can return
WaitNoWait == TRUE
WaitReturns == wg = 0

\* line 124: Read returns once the WaitGroup counter is zero
CPUHogWait ==
    /\ op = "cpu_hog.Read" /\ pc = "wait"
    /\ WaitReturns
    /\ pc' = "done"
    /\ retAt' = now
    /\ UNCHANGED <<now, op, ctxDone, deadline, sel, req, diags, respState, startAt>>
    /\ UNCHANGED <<cpuVars, sleepVars, failVars, provVars, extVars>>

\* the goroutine of lines 108-112 is scheduled: it logs and enters hogCPU
WorkerStart(w) ==
    /\ worker[w] = "started"
    /\ worker' = [worker EXCEPT ![w] = "hogging"]
    /\ UNCHANGED <<comVars, numCores, i, quit, wg, gomaxprocs, sleepVars, failVars, provVars, extVars>>

\* hogCPU, lines 127-135: the select takes <-stop once the channel is closed
\* (the default case spins: a stuttering step); the deferred wg.Done() runs
WorkerExit(w) ==
    /\ worker[w] = "hogging"
    /\ quit
    /\ worker' = [worker EXCEPT ![w] = "exited"]
    /\ wg' = wg - 1
    /\ UNCHANGED <<comVars, numCores, i, quit, gomaxprocs, sleepVars, failVars, provVars, extVars>>

InitCommon ==
    /\ now = 0
    /\ op = "none"
    /\ pc = "idle"
    /\ ctxDone = FALSE
    /\ deadline = -1
    /\ sel = "none"
    /\ req = NoState
    /\ diags = {}
    /\ respState = NoState
    /\ startAt = 0
    /\ retAt = 0
    /\ numCores = 0
    /\ i = 0
    /\ quit = FALSE
    /\ wg = 0
    /\ worker = NoWorkers
    /\ gomaxprocs = NumCPU
    /\ sleepState = NoState
    /\ failState = NoState
    /\ lastGood = NoState
    /\ refused = FALSE
    /\ served = {}
    /\ cmdState = NoState
    /\ httpState = NoState
    /\ calls = <<>>
    /\ memoryHog = <<>>
    /\ totalAllocatedBytes = 0
    /\ fs = NoFiles
    /\ prevRead = NoState

Init == InitCommon

NextCPU ==
    \/ \E cfg \in CPUHogConfigs : CPUHogRead(cfg)
    \/ CPUHogSpawn
    \/ CPUHogEnterSelect
    \/ CPUHogSelect
    \/ CPUHogWait
    \/ \E w \in Cores : WorkerStart(w)
    \/ \E w \in Cores : WorkerExit(w)
    \/ Tick
    \/ Cancel

SpecCPU == Init /\ [][NextCPU]_vars

\* The Go scheduler preempts spinning goroutines, so every goroutine that can
\* run eventually runs.
FairSpecCPU ==
    /\ SpecCPU
    /\ WF_vars(CPUHogSpawn)
    /\ WF_vars(CPUHogEnterSelect)
    /\ WF_vars(CPUHogSelect)
    /\ WF_vars(CPUHogWait)
    /\ \A w \in Cores : WF_vars(WorkerStart(w)) /\ WF_vars(WorkerExit(w))

----------------------------------------------------------------------------
(* resource debug_sleep: sleep_resource.go *)

\* SleepResourceModel without its computed id: what a configuration gives
SleepConfigs ==
    [duration         : {"bad", "1s"},
     update_duration  : {NullStr, "bad", "2s"},
     destroy_duration : {NullStr, "bad", "1s"}]

\* SleepResourceModel: a configuration with the id (an instant)
SleepModel(cfg, id) ==
    [exists |-> TRUE, id |-> id, duration |-> cfg.duration,
     update_duration |-> cfg.update_duration,
     destroy_duration |-> cfg.destroy_duration]

\* sleep, lines 194-201: the error of the branch the select took
SleepFails(b) == b = "ctx"

\* Create, line 105: data.Id = time.Now()
CreateIdAtEntry == startAt
CreateId == now

\* Update, line 128: the duration string Update parses
UpdateDurString(plan, state) == ValueString(state.update_duration)

\* Delete, line 165: the duration string Delete parses
DeleteDurStringOfCreate(state) == ValueString(state.duration)
DeleteDurString(state) == ValueString(state.destroy_duration)

\* a handler is entered with a fresh context and response
Enter(name, request) ==
    /\ ~Running
    /\ op' = name
    /\ req' = request
    /\ ctxDone' = FALSE
    /\ sel' = "none"
    /\ startAt' = now

\* Create up to the select of sleep (lines 72-96); the plan's id is unknown
SleepCreate(cfg) ==
    /\ ~sleepState.exists
    /\ Enter("sleep.Create", [exists |-> TRUE, plan |-> SleepModel(cfg, -1)])
    /\ respState' = NoState
    /\ IF ParseDuration(ValueString(cfg.duration)).ok
       THEN /\ diags' = {}
            /\ pc' = "sleep"
            /\ deadline' = now + ParseDuration(ValueString(cfg.duration)).d
            /\ retAt' = -1
       ELSE /\ diags' = {"Invalid Duration"}
            /\ pc' = "done"
            /\ deadline' = -1
            /\ retAt' = now
    /\ UNCHANGED <<now, cpuVars, sleepVars, failVars, provVars, extVars>>

\* Create from the select on (lines 96-108, 194-201); the host keeps the state set
SleepCreateResume ==
    /\ op = "sleep.Create" /\ pc = "sleep"
    /\ \E b \in ReadyBranches :
         /\ sel' = b
         /\ IF SleepFails(b)
            THEN /\ diags' = {"Sleep Failed"}
                 /\ UNCHANGED <<respState, sleepState>>
            ELSE /\ diags' = {}
                 /\ respState' = [req.plan EXCEPT !.id = CreateId]
                 /\ sleepState' = [req.plan EXCEPT !.id = CreateId]
    /\ pc' = "done"
    /\ retAt' = now
    /\ UNCHANGED <<now, op, ctxDone, deadline, req, startAt>>
    /\ UNCHANGED <<cpuVars, failVars, provVars, extVars>>

\* Read, lines 110-111: empty; the state stays as it was
SleepRead ==
    /\ sleepState.exists
    /\ Enter("sleep.Read", [exists |-> TRUE, state |-> sleepState])
    /\ respState' = sleepState
    /\ diags' = {}
    /\ pc' = "done"
    /\ deadline' = -1
    /\ retAt' = now
    /\ UNCHANGED <<now, cpuVars, sleepVars, failVars, provVars, extVars>>

\* Update up to the select of sleep (lines 113-143), or to its end when no
\* sleep is made (line 153).  The planned id is the id of the prior state
\* (UseStateForUnknown, lines 57-64); resp.State starts as the prior state.
\* The host calls Update only with a plan that differs from the state.
SleepUpdate(cfg) ==
    /\ sleepState.exists
    /\ SleepModel(cfg, sleepState.id) # sleepState
    /\ Enter("sleep.Update",
             [exists |-> TRUE, plan |-> SleepModel(cfg, sleepState.id), state |-> sleepState])
    /\ LET durString == UpdateDurString(SleepModel(cfg, sleepState.id), sleepState) IN
       IF durString = ""
       THEN /\ diags' = {}
            /\ pc' = "done"
            /\ deadline' = -1
            /\ retAt' = now
            /\ respState' = SleepModel(cfg, sleepState.id)
            /\ sleepState' = SleepModel(cfg, sleepState.id)
       ELSE IF ParseDuration(durString).ok
       THEN /\ diags' = {}
            /\ pc' = "sleep"
            /\ deadline' = now + ParseDuration(durString).d
            /\ retAt' = -1
            /\ respState' = sleepState
            /\ UNCHANGED sleepState
       ELSE /\ diags' = {"Invalid Update Duration"}
            /\ pc' = "done"
            /\ deadline' = -1
            /\ retAt' = now
            /\ respState' = sleepState
            /\ UNCHANGED sleepState
    /\ UNCHANGED <<now, cpuVars, failVars, provVars, extVars>>

\* Update from the select on (lines 143-154)
SleepUpdateResume ==
    /\ op = "sleep.Update" /\ pc = "sleep"
    /\ \E b \in ReadyBranches :
         /\ sel' = b
         /\ IF SleepFails(b)
            THEN /\ diags' = {"Sleep Failed"}
                 /\ UNCHANGED <<respState, sleepState>>
            ELSE /\ diags' = {}
                 /\ respState' = req.plan
                 /\ sleepState' = req.plan
    /\ pc' = "done"
    /\ retAt' = now
    /\ UNCHANGED <<now, op, ctxDone, deadline, req, startAt>>
    /\ UNCHANGED <<cpuVars, failVars, provVars, extVars>>

\* Delete up to the select of sleep (lines 156-184), or to its return at line
\* 168.  The host drops the state when Delete ends without an error.
SleepDelete ==
    /\ sleepState.exists
    /\ Enter("sleep.Delete", [exists |-> TRUE, state |-> sleepState])
    /\ respState' = sleepState
    /\ LET durString == DeleteDurString(sleepState) IN
       IF durString = ""
       THEN /\ diags' = {}
            /\ pc' = "done"
            /\ deadline' = -1
            /\ retAt' = now
            /\ sleepState' = NoState
       ELSE IF ParseDuration(durString).ok
       THEN /\ diags' = {}
            /\ pc' = "sleep"
            /\ deadline' = now + ParseDuration(durString).d
            /\ retAt' = -1
            /\ UNCHANGED sleepState
       ELSE /\ diags' = {"Invalid Duration"}
            /\ pc' = "done"
            /\ deadline' = -1
            /\ retAt' = now
            /\ UNCHANGED sleepState
    /\ UNCHANGED <<now, cpuVars, failVars, provVars, extVars>>

\* Delete from the select on (lines 184-192)
SleepDeleteResume ==
    /\ op = "sleep.Delete" /\ pc = "sleep"
    /\ \E b \in ReadyBranches :
         /\ sel' = b
         /\ IF SleepFails(b)
            THEN /\ diags' = {"Sleep Failed"}
                 /\ UNCHANGED sleepState
            ELSE /\ diags' = {}
                 /\ sleepState' = NoState
    /\ pc' = "done"
    /\ retAt' = now
    /\ UNCHANGED <<now, op, ctxDone, deadline, req, respState, startAt>>
    /\ UNCHANGED <<cpuVars, failVars, provVars, extVars>>

----------------------------------------------------------------------------
(* data source debug_sleep (sleep_data_source.go) and the provider *)

\* DebugProvider.DataSources: the constructors the provider returns
DataSources ==
    {"NewPlanArtifactDataSource", "NewOOMKillDataSource", "NewCPUHogDataSource",
     "NewEnvDataSource", "NewDNSLookupDataSource", "NewTCPProbeDataSource",
     "NewFileContentDataSource", "NewFailureDataSource", "NewSystemInfoDataSource"}

\* the host asks the provider for its data sources
ProviderDataSources ==
    /\ ~Running
    /\ served = {}
    /\ served' = DataSources
    /\ UNCHANGED <<comVars, cpuVars, sleepVars, failVars, extVars>>

\* SleepDataSource.Read up to the select of sleep (lines 50-71)
SleepDSRead(dur) ==
    /\ Enter("sleep_ds.Read", [exists |-> TRUE, config |-> [duration |-> dur]])
    /\ respState' = NoState
    /\ IF ParseDuration(ValueString(dur)).ok
       THEN /\ diags' = {}
            /\ pc' = "sleep"
            /\ deadline' = now + ParseDuration(ValueString(dur)).d
            /\ retAt' = -1
       ELSE /\ diags' = {"Invalid Duration"}
            /\ pc' = "done"
            /\ deadline' = -1
            /\ retAt' = now
    /\ UNCHANGED <<now, cpuVars, sleepVars, failVars, provVars, extVars>>

\* SleepDataSource.Read from the select on (lines 71-78)
SleepDSReadResume ==
    /\ op = "sleep_ds.Read" /\ pc = "sleep"
    /\ \E b \in ReadyBranches :
         /\ sel' = b
         /\ diags' = IF SleepFails(b) THEN {"Sleep Error"} ELSE {}
    /\ pc' = "done"
    /\ retAt' = now
    /\ UNCHANGED <<now, op, ctxDone, deadline, req, respState, startAt>>
    /\ UNCHANGED <<cpuVars, sleepVars, failVars, provVars, extVars>>

NextSleep ==
    \/ \E cfg \in SleepConfigs : SleepCreate(cfg)
    \/ SleepCreateResume
    \/ SleepRead
    \/ \E cfg \in SleepConfigs : SleepUpdate(cfg)
    \/ SleepUpdateResume
    \/ SleepDelete
    \/ SleepDeleteResume
    \/ ProviderDataSources
    \/ \E dur \in {"bad", "0s", "1s"} : SleepDSRead(dur)
    \/ SleepDSReadResume
    \/ Tick
    \/ Cancel

SpecSleep == Init /\ [][NextSleep]_vars

----------------------------------------------------------------------------
(* resource debug_failure: failure_resource.go *)

\* FailureResourceModel: the id is required and 10 to 256 characters long, the
\* three flags default to false, so a plan has all four known
FailurePlans ==
    [exists : {TRUE}, id : {"resource-a", "resource-b"},
     fail_on_create : BOOLEAN, fail_on_update : BOOLEAN, fail_on_destroy : BOOLEAN]

\* Create, line 84: data.FailOnCreate.ValueBool()
CreateFailsOnUpdateFlag(plan) == plan.fail_on_update
CreateFails(plan) == plan.fail_on_create

\* Update, line 114: data.FailOnUpdate.ValueBool()
UpdateFails(plan) == plan.fail_on_update

\* Delete, line 133: data.FailOnDestroy.ValueBool()
DeleteNeverFails(state) == FALSE
DeleteFails(state) == state.fail_on_destroy

\* a handler of debug_failure ran from its entry to its return
FailureReturn(errors) ==
    /\ diags' = errors
    /\ pc' = "done"
    /\ deadline' = -1
    /\ retAt' = now
    /\ UNCHANGED <<now, cpuVars, sleepVars, provVars, extVars>>

\* Create, lines 74-93
FailureCreate(plan) ==
    /\ ~failState.exists
    /\ Enter("failure.Create", [exists |-> TRUE, plan |-> plan, state |-> NoState])
    /\ IF CreateFails(plan)
       THEN /\ FailureReturn({"Create Failed"})
            /\ respState' = NoState
            /\ UNCHANGED <<failState, lastGood>>
       ELSE /\ FailureReturn({})
            /\ respState' = plan
            /\ failState' = plan
            /\ lastGood' = plan
    /\ refused' = FALSE

\* Read, lines 95-104: the state read is set again
FailureRead ==
    /\ failState.exists
    /\ Enter("failure.Read", [exists |-> TRUE, state |-> failState])
    /\ FailureReturn({})
    /\ respState' = failState
    /\ failState' = failState
    /\ UNCHANGED <<lastGood, refused>>

\* Update, lines 106-123; resp.State starts as the prior state and the host
\* calls Update only with a plan that differs from the state
FailureUpdate(plan) ==
    /\ failState.exists
    /\ plan # failState
    /\ Enter("failure.Update", [exists |-> TRUE, plan |-> plan, state |-> failState])
    /\ IF UpdateFails(plan)
       THEN /\ FailureReturn({"Update Failed"})
            /\ respState' = failState
            /\ UNCHANGED <<failState, lastGood>>
       ELSE /\ FailureReturn({})
            /\ respState' = plan
            /\ failState' = plan
            /\ lastGood' = plan
    /\ UNCHANGED refused

\* Delete, lines 125-140; the host drops the state when Delete ends without
\* an error
FailureDelete ==
    /\ failState.exists
    /\ Enter("failure.Delete", [exists |-> TRUE, state |-> failState])
    /\ respState' = failState
    /\ IF DeleteFails(failState)
       THEN /\ FailureReturn({"Delete Failed"})
            /\ refused' = TRUE
            /\ UNCHANGED <<failState, lastGood>>
       ELSE /\ FailureReturn({})
            /\ failState' = NoState
            /\ lastGood' = NoState
            /\ UNCHANGED refused

\* data source debug_failure, failure_data_source.go, Read lines 48-51: the
\* error Read adds
FailureDSNoErrors == {}
FailureDSErrors == {"Failure Data Source Error"}

\* FailureDataSource.Read, lines 39-52: the schema has no attribute, so the
\* configuration is the empty object; resp.State is never set
FailureDSRead ==
    /\ Enter("failure_ds.Read", [exists |-> TRUE, config |-> [exists |-> TRUE]])
    /\ FailureReturn(FailureDSErrors)
    /\ respState' = NoState
    /\ UNCHANGED failVars

NextFailure ==
    \/ \E plan \in FailurePlans : FailureCreate(plan)
    \/ FailureRead
    \/ \E plan \in FailurePlans : FailureUpdate(plan)
    \/ FailureDelete
    \/ FailureDSRead

SpecFailure == Init /\ [][NextFailure]_vars

----------------------------------------------------------------------------
(* resource debug_command: CommandResource in system_info_data_source.go *)

\* Handlers that run from entry to return without blocking: the diagnostics
\* are recorded and the handler has returned.
HandlerReturn(errors) ==
    /\ diags' = errors
    /\ pc' = "done"
    /\ deadline' = -1
    /\ retAt' = now
    /\ UNCHANGED <<now, cpuVars, sleepVars, failVars, provVars>>

\* largest exit code of a process in the model
MaxExit == 2

\* a null list and the unknown values of the planned computed attributes
NullList == <<NullStr>>
UnknownStr == "<unknown>"
UnknownInt == -98

\* create_command is optional and has at least one element when given
CommandPlans ==
    [exists : {TRUE},
     create_command : {NullList, <<"true">>, <<"sh", "-c", "exit $CODE">>}]

\* What command.Run() meets: the process cannot be started, or it runs, writes
\* to the two builders and exits with a code.
ProcessOutcomes ==
    {[started |-> FALSE, exit |-> -1, stdout |-> "", stderr |-> ""]} \cup
    [started : {TRUE}, exit : 0..MaxExit, stdout : {"", "out"}, stderr : {"", "err"}]

\* exec.Cmd.Run, lines 409-415: nil only when the command starts and exits
\* with status zero; a non-zero exit is an *exec.ExitError
RunFails(o) == ~o.started \/ o.exit # 0

\* hex of sha256 of the parts joined by NUL, lines 399-401: one id per command
CommandId(cmd) == <<"sha256", cmd>>

\* CommandResource.Create, lines 370-423
CommandCreate(plan) ==
    /\ ~cmdState.exists
    /\ Enter("command.Create", [exists |-> TRUE, plan |-> plan, state |-> NoState])
    /\ IF plan.create_command = NullList
       THEN \* lines 382 and 422: the planned object is stored as it is
            /\ calls' = <<>>
            /\ HandlerReturn({})
            /\ respState' = [exists |-> TRUE, id |-> UnknownStr,
                             create_command |-> NullList, stderr |-> UnknownStr,
                             stdout |-> UnknownStr, exit_code |-> UnknownInt]
            /\ cmdState' = respState'
       ELSE \E o \in ProcessOutcomes :
            /\ calls' = <<[call |-> "exec", cmd |-> plan.create_command,
                           started |-> o.started, exit |-> o.exit,
                           stdout |-> o.stdout, stderr |-> o.stderr]>>
            /\ IF RunFails(o)
               THEN /\ HandlerReturn({"Create Command Failed"})
                    /\ respState' = NoState
                    /\ cmdState' = NoState
               ELSE /\ HandlerReturn({})
                    /\ respState' = [exists |-> TRUE,
                                     id |-> CommandId(plan.create_command),
                                     create_command |-> plan.create_command,
                                     stderr |-> o.stderr, stdout |-> o.stdout,
                                     exit_code |-> o.exit]
                    /\ cmdState' = respState'
    /\ UNCHANGED <<httpState, memoryHog, totalAllocatedBytes, fs, prevRead>>

\* CommandResource.Read, lines 425-426: empty, the response keeps the state
\* it was given
CommandRead ==
    /\ cmdState.exists
    /\ Enter("command.Read", [exists |-> TRUE, state |-> cmdState])
    /\ calls' = <<>>
    /\ HandlerReturn({})
    /\ respState' = cmdState
    /\ UNCHANGED <<cmdState, httpState, memoryHog, totalAllocatedBytes, fs, prevRead>>

\* CommandResource.Delete, lines 431-432: empty, the host drops the state
CommandDelete ==
    /\ cmdState.exists
    /\ Enter("command.Delete", [exists |-> TRUE, state |-> cmdState])
    /\ calls' = <<>>
    /\ HandlerReturn({})
    /\ respState' = NoState
    /\ cmdState' = NoState
    /\ UNCHANGED <<httpState, memoryHog, totalAllocatedBytes, fs, prevRead>>

\* Update (lines 428-429) is never called: create_command, the only configured
\* attribute, requires replacement (lines 335-343).
NextCommand ==
    \/ \E plan \in CommandPlans : CommandCreate(plan)
    \/ CommandRead
    \/ CommandDelete
    \/ Tick

SpecCommand == Init /\ [][NextCommand]_vars

----------------------------------------------------------------------------
(* resource debug_http_get: HTTPGetResource in http_get_resource.go *)
(* A map is the set of its <<key, value>> pairs.                      *)

\* url is required and matches ^https?:// (lines 53-62); the second one
\* matches and has a space in its host
HTTPURLs == {"http://host/ok", "http://bad host/"}

\* http.NewRequestWithContext, line 120: the method is valid and the context
\* is not nil, so it fails exactly when url.Parse rejects the URL
NewRequestFails(url) ==
    CASE url = "http://host/ok" -> FALSE
      [] url = "http://bad host/" -> TRUE
      [] OTHER -> TRUE

\* headers is an optional map of strings, the keys match ^[a-zA-Z0-9-]+$
\* (lines 64-74); a value may be null
NullMap == [null |-> TRUE, elems |-> {}]
HTTPHeaderMaps ==
    {NullMap} \cup
    [null : {FALSE},
     elems : {{}, {<<"x-a", "1">>}, {<<"x-a", "1">>, <<"X-B", NullStr>>},
              {<<"x-a", "1">>, <<"X-A", "2">>}}]

\* textproto.CanonicalMIMEHeaderKey, applied by http.Header.Set (line 135):
\* first letter and letters after a hyphen upper case, the others lower case
CanonicalHeaderKey(k) ==
    CASE k = "x-a" -> "X-A"
      [] k = "X-A" -> "X-A"
      [] k = "X-B" -> "X-B"
      [] OTHER -> k

\* lines 129-137: every non-null element is Set under its canonical key; Set
\* replaces, and the map is ranged over in no fixed order, so of several keys
\* with one canonical form any one may be the last
RequestHeaders(headers) ==
    LET pairs == IF headers.null THEN {}
                 ELSE {<<CanonicalHeaderKey(p[1]), p[2]>> :
                         p \in {q \in headers.elems : q[2] # NullStr}}
        names == {p[1] : p \in pairs}
    IN  {S \in SUBSET pairs :
           \A n \in names : Cardinality({p \in S : p[1] = n}) = 1}

\* timeout defaults to 5 (line 80); planned values of the computed attributes
HTTPPlans ==
    [exists : {TRUE}, url : HTTPURLs, headers : HTTPHeaderMaps, timeout : {5}]

\* What httpClient.Do (line 139) meets: an error, or a response with a status,
\* headers (name -> list of values), a body, and a body that may fail to read
HTTPResponseHeaders ==
    {{}, {<<"Content-Type", <<"text/plain">>>>},
     {<<"Set-Cookie", <<"a=1", "b=2">>>>, <<"X-Empty", <<>>>>}}
HTTPResults ==
    {[err |-> TRUE, status |-> 0, header |-> {}, body |-> "", readErr |-> FALSE]}
    \cup [err : {FALSE}, status : {200, 404}, header : HTTPResponseHeaders,
          body : {"", "hello"}, readErr : BOOLEAN]

\* lines 151-156: the last value instead of the first
LastValues(header) == {<<p[1], p[2][Len(p[2])]>> : p \in {q \in header : Len(q[2]) > 0}}
\* lines 151-156: the first value of every header that has one
FirstValues(header) == {<<p[1], p[2][1]>> : p \in {q \in header : Len(q[2]) > 0}}

\* lines 175-179
ResponseBody(body) == IF body = "" THEN NullStr ELSE body

HTTPModel(plan, status, headers, body) ==
    [exists |-> TRUE, url |-> plan.url, headers |-> plan.headers,
     timeout |-> plan.timeout, response_status_code |-> status,
     response_headers |-> headers, response_body |-> body]

HTTPFail(error) ==
    /\ HandlerReturn({error})
    /\ respState' = NoState
    /\ httpState' = NoState

\* HTTPGetResource.Create, lines 107-182
HTTPCreate(plan) ==
    /\ ~httpState.exists
    /\ Enter("http_get.Create", [exists |-> TRUE, plan |-> plan, state |-> NoState])
    /\ IF NewRequestFails(plan.url)
       THEN /\ calls' = <<>>
            /\ HTTPFail("HTTP Request Creation Failed")
       ELSE \E hdr \in RequestHeaders(plan.headers), r \in HTTPResults :
            /\ calls' = <<[call |-> "GET", url |-> plan.url, header |-> hdr,
                           timeout |-> plan.timeout, result |-> r]>>
            /\ IF r.err
               THEN HTTPFail("HTTP Request Failed")
               ELSE IF r.readErr
               THEN HTTPFail("HTTP Response Read Failed")
               ELSE /\ HandlerReturn({})
                    /\ respState' = HTTPModel(plan, r.status, FirstValues(r.header),
                                              ResponseBody(r.body))
                    /\ httpState' = respState'
    /\ UNCHANGED <<cmdState, memoryHog, totalAllocatedBytes, fs, prevRead>>

\* HTTPGetResource.Read, lines 184-193: the state read is set again
HTTPRead ==
    /\ httpState.exists
    /\ Enter("http_get.Read", [exists |-> TRUE, state |-> httpState])
    /\ calls' = <<>>
    /\ HandlerReturn({})
    /\ respState' = httpState
    /\ UNCHANGED <<cmdState, httpState, memoryHog, totalAllocatedBytes, fs, prevRead>>

\* HTTPGetResource.Update, lines 195-204: the plan is stored and no request is
\* made. The url requires replacement, so it is the one of the state; the
\* planned response_headers are those of the state (lines 93-99), status and
\* body are unknown in a plan that changes something.
HTTPUpdate(plan) ==
    /\ httpState.exists
    /\ plan.url = httpState.url
    /\ plan.headers # httpState.headers
    /\ Enter("http_get.Update", [exists |-> TRUE, plan |-> plan, state |-> httpState])
    /\ calls' = <<>>
    /\ HandlerReturn({})
    /\ respState' = HTTPModel(plan, UnknownInt, httpState.response_headers, UnknownStr)
    /\ httpState' = respState'
    /\ UNCHANGED <<cmdState, memoryHog, totalAllocatedBytes, fs, prevRead>>

\* HTTPGetResource.Delete, lines 206-207: empty, the host drops the state
HTTPDelete ==
    /\ httpState.exists
    /\ Enter("http_get.Delete", [exists |-> TRUE, state |-> httpState])
    /\ calls' = <<>>
    /\ HandlerReturn({})
    /\ respState' = NoState
    /\ httpState' = NoState
    /\ UNCHANGED <<cmdState, memoryHog, totalAllocatedBytes, fs, prevRead>>

NextHTTP ==
    \/ \E plan \in HTTPPlans : HTTPCreate(plan)
    \/ HTTPRead
    \/ \E plan \in HTTPPlans : HTTPUpdate(plan)
    \/ HTTPDelete

SpecHTTP == Init /\ [][NextHTTP]_vars

----------------------------------------------------------------------------
(* data source debug_oom_kill: oom_kill_data_source.go *)

\* blocks the machine can hold before the process is killed
MaxBlocks == 5

\* lines 83-85
DefaultBlockSize == 100 * 1024 * 1024

\* types.Int64.ValueInt64: zero for null
ValueInt64(v) == IF v = NullInt THEN 0 ELSE v

\* memory is required, block_size optional (lines 40-49)
OOMKillConfigs ==
    [exists : {TRUE}, memory : {-1, 0, 600, 1024}, block_size : {NullInt, -1, 0, 256}]

\* lines 65 and 74, 83-85
TotalBytes(cfg) == ValueInt64(cfg.memory)
OOMBlockSize(cfg) ==
    IF ValueInt64(cfg.block_size) <= 0 THEN DefaultBlockSize
    ELSE ValueInt64(cfg.block_size)

\* lines 87-97
NumBlocksToAllocate(cfg) ==
    IF TotalBytes(cfg) = -1 THEN -1
    ELSE IF TotalBytes(cfg) % OOMBlockSize(cfg) > 0
    THEN (TotalBytes(cfg) \div OOMBlockSize(cfg)) + 1
    ELSE TotalBytes(cfg) \div OOMBlockSize(cfg)
LastBlockSize(cfg) ==
    IF TotalBytes(cfg) # -1 /\ TotalBytes(cfg) % OOMBlockSize(cfg) > 0
    THEN TotalBytes(cfg) % OOMBlockSize(cfg)
    ELSE OOMBlockSize(cfg)

\* lines 118-121, for the block of index idx
CurrBlockSize(cfg, idx) ==
    IF NumBlocksToAllocate(cfg) # -1 /\ idx = NumBlocksToAllocate(cfg) - 1
    THEN LastBlockSize(cfg)
    ELSE OOMBlockSize(cfg)

OOMFrame == UNCHANGED <<now, cpuVars, sleepVars, failVars, provVars,
                        cmdState, httpState, calls, fs, prevRead>>

\* OOMKillDataSource.Read, lines 57-111: the checks, up to the loop
OOMKillRead(cfg) ==
    /\ Enter("oom_kill.Read", [exists |-> TRUE, config |-> cfg])
    /\ respState' = NoState
    /\ memoryHog' = <<>>
    /\ totalAllocatedBytes' = 0
    /\ deadline' = -1
    /\ IF TotalBytes(cfg) <= 0 /\ TotalBytes(cfg) # -1
       THEN diags' = {"Invalid Memory Size"} /\ pc' = "done" /\ retAt' = now
       ELSE IF ValueInt64(cfg.block_size) < 0
       THEN diags' = {"Invalid Block Size"} /\ pc' = "done" /\ retAt' = now
       ELSE diags' = {} /\ pc' = "oom_loop" /\ UNCHANGED retAt
    /\ OOMFrame

\* one iteration of the loop, lines 112-139; the index is len(memoryHog)
OOMAllocate ==
    /\ pc = "oom_loop"
    /\ \/ NumBlocksToAllocate(req.config) = -1
       \/ Len(memoryHog) < NumBlocksToAllocate(req.config)
    /\ Len(memoryHog) < MaxBlocks
    /\ memoryHog' = Append(memoryHog, CurrBlockSize(req.config, Len(memoryHog)))
    /\ totalAllocatedBytes' =
         totalAllocatedBytes + CurrBlockSize(req.config, Len(memoryHog))
    /\ UNCHANGED <<op, pc, ctxDone, deadline, sel, req, diags, respState, startAt, retAt>>
    /\ OOMFrame

\* the break of lines 113-115 and the return of line 146: nothing is set on
\* resp.State
OOMReturn ==
    /\ pc = "oom_loop"
    /\ NumBlocksToAllocate(req.config) # -1
    /\ Len(memoryHog) >= NumBlocksToAllocate(req.config)
    /\ pc' = "done"
    /\ retAt' = now
    /\ UNCHANGED <<op, ctxDone, deadline, sel, req, diags, respState, startAt>>
    /\ UNCHANGED <<memoryHog, totalAllocatedBytes>>
    /\ OOMFrame

\* The machine runs out of memory and the provider process is killed while it
\* holds blocks; a new process starts with nothing allocated.
OOMKilled ==
    /\ pc = "oom_loop"
    /\ memoryHog # <<>>
    /\ pc' = "idle"
    /\ ctxDone' = FALSE
    /\ memoryHog' = <<>>
    /\ totalAllocatedBytes' = 0
    /\ UNCHANGED <<op, deadline, sel, req, diags, respState, startAt, retAt>>
    /\ OOMFrame

NextOOM ==
    \/ \E cfg \in OOMKillConfigs : OOMKillRead(cfg)
    \/ OOMAllocate
    \/ OOMReturn
    \/ OOMKilled
    \/ Tick
    \/ Cancel

SpecOOM == Init /\ [][NextOOM]_vars

----------------------------------------------------------------------------
(* data source debug_plan_artifact: PlanArtifactDataSource in            *)
(* http_get_resource.go. The working directory holds the files of fs; a  *)
(* file is its size and its bytes, which are one of a few random values. *)
(* The file system is reliable: os.Stat fails only for a missing file,   *)
(* and a created file takes every write.                                 *)

\* lines 318-319
ChunkSize == 64 * 1024

\* distinct values of the random bytes of a file
MaxRandom == 2

\* file_size and file_name are required (lines 253-260)
PlanArtifactConfigs ==
    [exists : {TRUE}, file_size : {0, 10, 70000}, file_name : Paths]

\* filepath.Base, and os.FileInfo.Name(), which is the base name of the path
\* given to os.Stat
Base(path) ==
    CASE path = "artifact" -> "artifact"
      [] path = "out/artifact" -> "artifact"
      [] OTHER -> path

\* hashFile, lines 397-403: sha256 of the content, one value per content
HashFile(file) == <<"sha256", file.size, file.data>>

\* the write loop, lines 343-368: bytes written once written >= fileSize
RECURSIVE WriteLoop(_, _)
WriteLoop(written, fileSize) ==
    IF written < fileSize
    THEN WriteLoop(written + (IF fileSize - written < ChunkSize
                              THEN fileSize - written ELSE ChunkSize), fileSize)
    ELSE written

ArtifactModel(size, name, id) ==
    [exists |-> TRUE, file_size |-> size, file_name |-> name, id |-> id]

\* the Read that returned before this one, and the files it left
ArtifactHistory ==
    IF op = "plan_artifact.Read"
    THEN [exists |-> TRUE, config |-> req.config, diags |-> diags,
          state |-> respState, files |-> fs]
    ELSE NoState

ArtifactFrame == UNCHANGED <<cmdState, httpState, memoryHog, totalAllocatedBytes>>

\* PlanArtifactDataSource.Read, lines 274-395
PlanArtifactRead(cfg) ==
    /\ Enter("plan_artifact.Read", [exists |-> TRUE, config |-> cfg])
    /\ prevRead' = ArtifactHistory
    /\ ArtifactFrame
    /\ IF fs[cfg.file_name].exists
       THEN \* lines 291-316: the file is opened by existingFile.Name()
            LET name == Base(cfg.file_name) IN
            /\ calls' = <<<<"stat", cfg.file_name>>, <<"open", name>>>>
            /\ fs' = fs
            /\ IF ~fs[name].exists
               THEN /\ HandlerReturn({"Unable to open existing file"})
                    /\ respState' = NoState
               ELSE /\ HandlerReturn({})
                    /\ respState' = ArtifactModel(fs[cfg.file_name].size, name,
                                                  HashFile(fs[name]))
       ELSE IF ValueInt64(cfg.file_size) <= 0
       THEN /\ calls' = <<<<"stat", cfg.file_name>>>>
            /\ fs' = fs
            /\ HandlerReturn({"Invalid File Size"})
            /\ respState' = NoState
       ELSE \E created \in BOOLEAN, data \in 1..MaxRandom :
            /\ calls' = <<<<"stat", cfg.file_name>>, <<"create", cfg.file_name>>>>
            /\ IF ~created
               THEN /\ fs' = fs
                    /\ HandlerReturn({"Unable to create file"})
                    /\ respState' = NoState
               ELSE LET file == [exists |-> TRUE,
                                 size |-> WriteLoop(0, ValueInt64(cfg.file_size)),
                                 data |-> data] IN
                    /\ fs' = [fs EXCEPT ![cfg.file_name] = file]
                    /\ HandlerReturn({})
                    /\ respState' = ArtifactModel(file.size, Base(cfg.file_name),
                                                  HashFile(file))

NextArtifact ==
    \E cfg \in PlanArtifactConfigs : PlanArtifactRead(cfg)

SpecArtifact == Init /\ [][NextArtifact]_vars

----------------------------------------------------------------------------
(* Claims about debug_cpu_hog *)

\* documented default of the duration attribute, in seconds
DefaultHogDuration == 30

CPUHogReturned == op = "cpu_hog.Read" /\ pc = "done"
StartedWorkers == {w \in Cores : worker[w] # "none"}
LiveWorkers == {w \in Cores : worker[w] \in {"started", "hogging"}}
CoresValid(cfg) ==
    /\ ValueInt32(cfg.num_cores) >= 0
    /\ ValueInt32(cfg.num_cores) <= NumCPU

\* C1: no worker is running once Read has returned, a worker exits only after
\* quit is closed, and once the timer is due or the context is cancelled while
\* Read waits in its select, Read eventually returns with every worker exited.
C1_WorkersExitBeforeReturn ==
    /\ [](CPUHogReturned => LiveWorkers = {})
    /\ [](\A w \in Cores : worker[w] = "exited" => quit)
    /\ (op = "cpu_hog.Read" /\ pc = "select" /\ ReadyBranches # {})
          ~> (CPUHogReturned /\ quit /\ LiveWorkers = {})

\* C1 witness: a Read that fanned out to every core, was stopped by its timer
\* and returned after all its workers exited.
C1_Witness ==
    /\ CPUHogReturned
    /\ sel = "timer"
    /\ Cardinality({w \in Cores : worker[w] = "exited"}) = NumCPU

C3_DefaultDuration ==
    (CPUHogReturned /\ req.config.duration = NullStr /\ CoresValid(req.config)) =>
      /\ diags = {}
      /\ StartedWorkers # {}
      /\ sel = "timer" => retAt >= startAt + DefaultHogDuration

----------------------------------------------------------------------------
(* Claims about the debug_sleep resource and data source *)

SleepCreateReturned == op = "sleep.Create" /\ pc = "done"
SleepUpdateReturned == op = "sleep.Update" /\ pc = "done"
SleepDeleteReturned == op = "sleep.Delete" /\ pc = "done"
SleepDSReadReturned == op = "sleep_ds.Read" /\ pc = "done"

\* C4: Create sets state only once the timer of the planned duration is due,
\* to the plan with id = the instant Create returned; a duration that does not
\* parse, or a context cancelled while the timer is not yet due, gives an
\* error and no state.
C4_CreateStateAfterTimer ==
    SleepCreateReturned =>
      LET pd == ParseDuration(ValueString(req.plan.duration)) IN
      /\ respState.exists =>
            /\ pd.ok /\ sel = "timer" /\ diags = {}
            /\ retAt >= startAt + pd.d
            /\ respState = [req.plan EXCEPT !.id = retAt]
            /\ sleepState = respState
      /\ ~pd.ok => diags = {"Invalid Duration"} /\ ~respState.exists
      /\ (pd.ok /\ ctxDone /\ retAt < startAt + pd.d) =>
            diags = {"Sleep Failed"} /\ ~respState.exists
      /\ sel = "ctx" => diags = {"Sleep Failed"} /\ ~respState.exists
      /\ ~respState.exists => diags # {} /\ ~sleepState.exists

\* C4 witness: a Create that slept and then wrote its state.
C4_Witness ==
    /\ SleepCreateReturned
    /\ respState.exists
    /\ retAt > startAt
    /\ sleepState.id = retAt

\* C5: an Update that completes with a plan whose update_duration is a valid
\* duration d returns no earlier than d after it was entered.
C5_UpdateSleepsPlannedDuration ==
    (/\ SleepUpdateReturned
     /\ diags = {}
     /\ ParseDuration(ValueString(req.plan.update_duration)).ok) =>
       /\ sleepState = req.plan
       /\ retAt >= startAt + ParseDuration(ValueString(req.plan.update_duration)).d

\* C6: after a successful Create or Update the id in state is the instant
\* that call returned.
C6_IdIsLastChange ==
    ((SleepCreateReturned \/ SleepUpdateReturned) /\ diags = {}) =>
       sleepState.exists /\ sleepState.id = retAt

\* C7: Delete sleeps for the destroy_duration of the state; without one it
\* returns at once without error; a destroy_duration that does not parse, or
\* a context cancelled while the timer is not yet due, gives an error.
C7_DeleteSleeps ==
    SleepDeleteReturned =>
      LET ds == ValueString(req.state.destroy_duration)
          pd == ParseDuration(ds) IN
      /\ ds = "" =>
            diags = {} /\ sel = "none" /\ retAt = startAt /\ ~sleepState.exists
      /\ (ds # "" /\ ~pd.ok) => diags = {"Invalid Duration"} /\ sleepState = req.state
      /\ (pd.ok /\ diags = {}) =>
            sel = "timer" /\ retAt >= startAt + pd.d /\ ~sleepState.exists
      /\ (pd.ok /\ ctxDone /\ retAt < startAt + pd.d) =>
            diags = {"Sleep Failed"} /\ sleepState = req.state
      /\ sel = "ctx" => diags = {"Sleep Failed"} /\ sleepState = req.state
      /\ (pd.ok /\ ~ctxDone) => diags = {}

\* C7 witness: a Delete that slept for the stored destroy_duration and removed
\* the resource.
C7_Witness ==
    /\ SleepDeleteReturned
    /\ req.state.destroy_duration = "1s"
    /\ diags = {}
    /\ retAt > startAt
    /\ ~sleepState.exists

\* C8: the provider serves the sleep data source, and its Read returns without
\* error exactly when the timer branch is taken ("Invalid Duration" when the
\* duration does not parse, "Sleep Error" on cancellation).
C8_SleepDataSourceServed ==
    /\ served # {} => "NewSleepDataSource" \in served
    /\ SleepDSReadReturned =>
         /\ diags = {} <=> sel = "timer"
         /\ ~ParseDuration(ValueString(req.config.duration)).ok
               <=> diags = {"Invalid Duration"}
         /\ sel = "ctx" <=> diags = {"Sleep Error"}

----------------------------------------------------------------------------
(* Claims about the debug_failure resource *)

FailureReturned(name) == op = name /\ pc = "done"

\* C9: Create fails iff the planned fail_on_create is true, Update fails iff
\* the planned fail_on_update is true; the stored state is the plan of the
\* most recent successful Create or Update: a failed Create or Update leaves
\* the state as it was and Read sets it to what it was.
C9_StateIsLastSuccessfulPlan ==
    /\ failState = lastGood
    /\ FailureReturned("failure.Create") =>
          /\ diags # {} <=> req.plan.fail_on_create
          /\ failState = IF diags = {} THEN req.plan ELSE req.state
    /\ FailureReturned("failure.Update") =>
          /\ diags # {} <=> req.plan.fail_on_update
          /\ failState = IF diags = {} THEN req.plan ELSE req.state
    /\ FailureReturned("failure.Read") => diags = {} /\ failState = req.state

\* C9 witness: an Update failed after an earlier success and the state is
\* still the earlier plan, which differs from the failed one.
C9_Witness ==
    /\ FailureReturned("failure.Update")
    /\ diags = {"Update Failed"}
    /\ failState.exists
    /\ failState = lastGood
    /\ failState # req.plan

\* C10: Delete fails iff the stored fail_on_destroy is true; a state holding
\* fail_on_destroy = true is neither destroyed nor changed except by a
\* successful Update, and Delete succeeds whenever the state holds
\* fail_on_destroy = false, also after a Delete was refused.
C10_DestroyGuardedByState ==
    /\ FailureReturned("failure.Delete") =>
          /\ diags # {} <=> req.state.fail_on_destroy
          /\ diags = {} <=> ~failState.exists
          /\ diags # {} => failState = req.state
    /\ (pc = "done" /\ op \in {"failure.Create", "failure.Read", "failure.Update", "failure.Delete"}
          /\ req.state.exists /\ req.state.fail_on_destroy /\ failState # req.state) =>
          /\ op = "failure.Update"
          /\ diags = {}
          /\ failState = req.plan

\* C10 witness: a Delete was refused, an Update stored fail_on_destroy = false
\* and the Delete that followed succeeded.
C10_Witness ==
    /\ FailureReturned("failure.Delete")
    /\ refused
    /\ diags = {}
    /\ ~failState.exists

----------------------------------------------------------------------------
(* Claims about the debug_failure data source *)

\* C11: Read of the debug_failure data source always ends with the error
\* "Failure Data Source Error" and sets no state, and leaves the state of the
\* debug_failure resource alone.
C11_FailureDSAlwaysFails ==
    FailureReturned("failure_ds.Read") =>
      /\ "Failure Data Source Error" \in diags
      /\ ~respState.exists
      /\ failState = lastGood

\* C11 witness: the data source was read while a debug_failure resource exists.
C11_Witness ==
    /\ FailureReturned("failure_ds.Read")
    /\ diags = {"Failure Data Source Error"}
    /\ failState.exists

----------------------------------------------------------------------------
(* Claims about debug_command *)

CommandCreateReturned == op = "command.Create" /\ pc = "done"

\* the process Create ran, when it ran one that exited
CommandProcessExited == CommandCreateReturned /\ calls # <<>> /\ calls[1].started

\* C12: when Create of debug_command runs create_command and the process
\* exits with code c, the state records exit_code = c with the captured
\* stdout and stderr of that process, for every c, zero or not.
C12_ExitCodeRecorded ==
    CommandProcessExited =>
      /\ diags = {}
      /\ cmdState.exists
      /\ cmdState.exit_code = calls[1].exit
      /\ cmdState.stdout = calls[1].stdout
      /\ cmdState.stderr = calls[1].stderr

----------------------------------------------------------------------------
(* Claims about debug_http_get *)

HTTPCreateReturned == op = "http_get.Create" /\ pc = "done"

\* the configured headers whose value is not null, as configured
ConfiguredHeaders ==
    IF req.plan.headers.null THEN {}
    ELSE {p \in req.plan.headers.elems : p[2] # NullStr}

\* What Create does with the outcome r of its GET: no state and an error when
\* the request failed or the body could not be read; else the status, the
\* first value of each response header and the body, null when empty.
HTTPOutcomeStored(r) ==
    IF r.err THEN diags = {"HTTP Request Failed"} /\ ~httpState.exists
    ELSE IF r.readErr
    THEN diags = {"HTTP Response Read Failed"} /\ ~httpState.exists
    ELSE /\ diags = {}
         /\ httpState.exists
         /\ httpState.response_status_code = r.status
         /\ \A p \in r.header :
              Len(p[2]) > 0 => <<p[1], Head(p[2])>> \in httpState.response_headers
         /\ \A h \in httpState.response_headers :
              \E p \in r.header : Len(p[2]) > 0 /\ h = <<p[1], Head(p[2])>>
         /\ httpState.response_body = (IF r.body = "" THEN NullStr ELSE r.body)

\* C13, as stated: Create performs exactly one GET to url carrying the
\* configured non-null headers and stores the outcome of that GET.
C13_ExactlyOneGet ==
    HTTPCreateReturned =>
      /\ Len(calls) = 1
      /\ calls[1].call = "GET"
      /\ calls[1].url = req.plan.url
      /\ \A p \in ConfiguredHeaders :
           <<CanonicalHeaderKey(p[1]), p[2]>> \in calls[1].header
      /\ HTTPOutcomeStored(calls[1].result)

\* C13, amended: Create performs at most one GET. It performs none when the
\* request cannot be built from url, and then reports "HTTP Request Creation
\* Failed" and writes no state. Else it performs exactly one GET to url that
\* carries, for each canonical name of a configured non-null header, one value
\* configured under a key of that name, and stores the outcome of that GET.
C13_AtMostOneGet ==
    HTTPCreateReturned =>
      IF NewRequestFails(req.plan.url)
      THEN /\ calls = <<>>
           /\ diags = {"HTTP Request Creation Failed"}
           /\ ~httpState.exists
      ELSE /\ Len(calls) = 1
           /\ calls[1].call = "GET"
           /\ calls[1].url = req.plan.url
           /\ \A p \in ConfiguredHeaders :
                \E h \in calls[1].header : h[1] = CanonicalHeaderKey(p[1])
           /\ \A h \in calls[1].header :
                /\ \E p \in ConfiguredHeaders :
                     h = <<CanonicalHeaderKey(p[1]), p[2]>>
                /\ \A g \in calls[1].header : g[1] = h[1] => g = h
           /\ HTTPOutcomeStored(calls[1].result)

\* C13 witness: a response with status 404, a header of two values and an
\* empty body was received for a request with a configured header and stored.
C13_Witness ==
    /\ HTTPCreateReturned
    /\ Len(calls) = 1
    /\ calls[1].header = {<<"X-A", "1">>}
    /\ ~calls[1].result.err
    /\ calls[1].result.status = 404
    /\ httpState.exists
    /\ httpState.response_status_code = 404
    /\ <<"Set-Cookie", "a=1">> \in httpState.response_headers
    /\ httpState.response_body = NullStr

----------------------------------------------------------------------------
(* Claims about debug_oom_kill *)

OOMKillReturned == op = "oom_kill.Read" /\ pc = "done"

\* C14: reading debug_oom_kill with memory = 1024 and block_size = 256
\* succeeds and yields a state with file_size = 1024 and an id made of
\* "oom-kill-" and decimal digits.
C14_StateHasFileSizeAndId ==
    (OOMKillReturned /\ req.config.memory = 1024 /\ req.config.block_size = 256) =>
      /\ diags = {}
      /\ respState.exists
      /\ respState.file_size = 1024
      /\ respState.id[1] = "oom-kill-"
      /\ respState.id[2] \in Nat

----------------------------------------------------------------------------
(* Claims about debug_plan_artifact *)

\* a Read returned that follows a Read of the same configuration which set
\* a state
PlanArtifactReadAgain ==
    /\ op = "plan_artifact.Read"
    /\ pc = "done"
    /\ prevRead.exists
    /\ prevRead.config = req.config
    /\ prevRead.diags = {}
    /\ prevRead.state.exists

\* C15: two consecutive Reads of debug_plan_artifact with the same
\* configuration return the same id, file_size and file_name, and the second
\* leaves the files as the first left them, for every file_name, with or
\* without directory components.
C15_ReadRepeatable ==
    PlanArtifactReadAgain =>
      /\ diags = {}
      /\ respState = prevRead.state
      /\ fs = prevRead.files

====
